---- MODULE Spec2Model ----
(***************************************************************************)
(* The Drawer component of suksiaj/jsui (src/.storybook/main.ts, lines     *)
(* 28-215) as a state machine: one mounted instance, the props its parent  *)
(* passes, the useState hook that holds the visibility, the useEffect that *)
(* copies the open prop into it, and the element tree of the last commit.  *)
(*                                                                         *)
(* The hooks follow React 18, which useId (main.ts:134) requires: a hook   *)
(* keeps a queue of updates, each with a lane; an update made in a click   *)
(* handler has the sync lane and is rendered within the same task; an      *)
(* update made in a passive effect has the default lane and is rendered in *)
(* a later task; every render first runs the passive effects still         *)
(* pending.                                                                *)
(***************************************************************************)
EXTENDS Integers, Sequences, FiniteSets, TLC

VARIABLES
    args,           \* the props the parent passed at the last render (a partial record)
    drawerOpen,     \* useState: the committed value of the state (main.ts:131)
    baseState,      \* useState: the state the pending updates are replayed on
    queue,          \* useState: the updates not yet rendered in every lane
    effectPending,  \* useEffect(…, [open]) is scheduled and has not run yet
    view,           \* the element tree returned by the last committed render
    surfaceMounted, \* the MuiDrawer surface is in the document (open, or closing)
    requestOpens,   \* calls of handleDrawerToggle(true)
    requestCloses,  \* calls of handleDrawerToggle(false)
    onOpenCalls,    \* calls of the caller's onOpen
    onCloseCalls,   \* calls of the caller's onClose
    thrown,         \* the exception that left the last event handler
    repeated,       \* the last request asked for the visibility already rendered
    lastEvent,      \* the last of: the mount, a control activated, the open prop changed
    sibling,        \* a second Drawer instance mounted in the same tree (at most one)
    navBar,         \* the props of the NavBar that renders the Drawer (none: standalone)
    contrast,       \* the run of the contrast report on one pair of colours (none: not run)
    delivered       \* the last calls of setDrawerOpen in the update cycle, oldest first

vars == <<args, drawerOpen, baseState, queue, effectPending, view, surfaceMounted,
          requestOpens, requestCloses, onOpenCalls, onCloseCalls, thrown, repeated,
          lastEvent, sibling, navBar, contrast, delivered>>

(***************************************************************************)
(* Bounds                                                                  *)
(***************************************************************************)
MaxCalls == 2   \* requestOpen calls, and requestClose calls, of one behaviour
MaxQueue == 2   \* updates waiting in the hook's queue

(***************************************************************************)
(* Props                                                                   *)
(***************************************************************************)
Undefined == "undefined"

DefaultWidth == 400

Positions == {"left", "right", "top", "bottom"}

Widths == {200}

Titles == {"", "Settings"}

\* a caller's callback either returns or throws
Callbacks == {"returns", "throws"}

NoProps == [k \in {} |-> Undefined]

\* openButtonProps bags (IconButtonProps): display only, disabled, loading, own onClick
OpenButtonPropsBags ==
    { [content |-> "Open Drawer"], [disabled |-> TRUE], [loading |-> TRUE],
      [onClick |-> "custom"] }

Get(bag, key, default) == IF key \in DOMAIN bag THEN bag[key] ELSE default

\* the destructuring of the props with its defaults
DrawerProps(a) ==
    [ open            |-> Get(a, "open", FALSE),
      onClose         |-> Get(a, "onClose", Undefined),
      title           |-> Get(a, "title", Undefined),
      content         |-> Get(a, "content", Undefined),
      openButton      |-> Get(a, "openButton", TRUE),
      closeButton     |-> Get(a, "closeButton", TRUE),
      openButtonProps |-> Get(a, "openButtonProps", NoProps),
      onOpen          |-> Get(a, "onOpen", Undefined),
      position        |-> Get(a, "position", "left"),
      width           |-> Get(a, "width", DefaultWidth) ]

props == DrawerProps(args)

\* JavaScript truthiness of an optional string
Truthy(s) == s \notin {Undefined, ""}

\* {...base, ...over}: the later keys win
Spread(base, over) ==
    [k \in DOMAIN base \cup DOMAIN over |->
        IF k \in DOMAIN over THEN over[k] ELSE base[k]]

\* S with every bag of S extended by key |-> v, for v in Vals (the key may be omitted)
Optional(S, key, Vals) == S \cup { bag @@ (key :> v) : bag \in S, v \in Vals }

(***************************************************************************)
(* IconButton (src/src/components/IconButton/IconButton.tsx)               *)
(***************************************************************************)
\* an IconButton that does not pass loading to its Button
IconButtonDropsLoading(p) ==
    [ disabled  |-> Get(p, "disabled", FALSE),
      loading   |-> FALSE,
      onClick   |-> Get(p, "onClick", Undefined),
      ariaLabel |-> Get(p, "ariaLabel", Undefined) ]

\* the Button element IconButton returns for a props bag
IconButton(p) ==
    [ disabled  |-> Get(p, "disabled", FALSE),
      loading   |-> Get(p, "loading", FALSE),
      onClick   |-> Get(p, "onClick", Undefined),
      ariaLabel |-> Get(p, "ariaLabel", Undefined) ]

\* a disabled or loading Button takes no click
ButtonDisabled(button) == button.disabled \/ button.loading

(***************************************************************************)
(* Drawer: the render function                                             *)
(***************************************************************************)
\* an identifier computed anew by every render, from the visibility it renders over
TitleIdByVisibility == IF drawerOpen THEN ":r0:" ELSE ":r2:"

\* React.useId(): one identifier for the mounted instance
TitleId == ":r0:"

\* React.useId() in a second instance of the same tree
SiblingTitleId == ":r1:"

OpenHandler == "handleDrawerToggle(true)"

CloseHandler == "handleDrawerToggle(false)"

isHorizontal(position) == position = "left" \/ position = "right"

\* the sizing that ignores the position
drawerSizeAlwaysWidth(p) == [width |-> p.width]

drawerSize(p) == IF isHorizontal(p.position) THEN [width |-> p.width] ELSE [height |-> p.width]

\* the Trigger wired to the close handler
TriggerPropsCloses(p) ==
    Spread([onClick |-> CloseHandler, ariaLabel |-> "Open drawer"], p.openButtonProps)

\* the props of the Trigger: onClick and aria-label, then the caller's bag spread over them
TriggerProps(p) ==
    Spread([onClick |-> OpenHandler, ariaLabel |-> "Open drawer"], p.openButtonProps)

\* the Trigger Control; an optional element is a set of at most one
TriggerElement(p) == IF p.openButton THEN {IconButton(TriggerProps(p))} ELSE {}

\* the PaperProps that always carry the static label
PaperPropsAlwaysLabel(p, titleId) ==
    [ role       |-> "dialog",
      labelledby |-> IF Truthy(p.title) THEN titleId ELSE Undefined,
      label      |-> "Drawer" ]

\* the PaperProps of the surface
PaperProps(p, titleId) ==
    [ role       |-> "dialog",
      labelledby |-> IF Truthy(p.title) THEN titleId ELSE Undefined,
      label      |-> IF Truthy(p.title) THEN Undefined ELSE "Drawer" ]

\* MuiDrawer controlled by the open prop instead of the state
MuiDrawerPropsOpenProp(p, isOpen, titleId) ==
    [ anchor  |-> p.position,
      open    |-> p.open,
      onClose |-> CloseHandler,
      paper   |-> PaperProps(p, titleId) ]

\* MuiDrawer given no onClose: a backdrop click or Escape reaches no handler
MuiDrawerPropsNoOnClose(p, isOpen, titleId) ==
    [ anchor  |-> p.position,
      open    |-> isOpen,
      onClose |-> Undefined,
      paper   |-> PaperProps(p, titleId) ]

\* MuiDrawer anchored at the left edge whatever the position
MuiDrawerPropsAnchorLeft(p, isOpen, titleId) ==
    [ anchor  |-> "left",
      open    |-> isOpen,
      onClose |-> CloseHandler,
      paper   |-> PaperProps(p, titleId) ]

\* the props Drawer gives MuiDrawer
MuiDrawerProps(p, isOpen, titleId) ==
    [ anchor  |-> p.position,
      open    |-> isOpen,
      onClose |-> CloseHandler,
      paper   |-> PaperProps(p, titleId) ]

\* the sx of the Box inside the surface
SurfaceSx(p) == Spread(drawerSize(p), [p |-> 2])

\* a title element rendered whenever a title is given, the empty string included
TitleElementIfDefined(p, titleId) ==
    IF p.title # Undefined THEN {[id |-> titleId, text |-> p.title]} ELSE {}

\* the title element of the surface
TitleElement(p, titleId) ==
    IF Truthy(p.title) THEN {[id |-> titleId, text |-> p.title]} ELSE {}

\* the Dismiss Control gated by the flag of the Trigger
DismissElementByOpenButton(p) ==
    IF p.openButton
    THEN {IconButton([variant |-> "text", onClick |-> CloseHandler,
                      ariaLabel |-> "Close drawer"])}
    ELSE {}

\* the Dismiss Control wired to the open handler
DismissElementOpens(p) ==
    IF p.closeButton
    THEN {IconButton([variant |-> "text", onClick |-> OpenHandler,
                      ariaLabel |-> "Close drawer"])}
    ELSE {}

\* the Dismiss Control inside the surface
DismissElement(p) ==
    IF p.closeButton
    THEN {IconButton([variant |-> "text", onClick |-> CloseHandler,
                      ariaLabel |-> "Close drawer"])}
    ELSE {}

\* the element tree Drawer returns
Render(p, isOpen, titleId) ==
    [ trigger |-> TriggerElement(p),
      surface |-> [ sx      |-> SurfaceSx(p),
                    title   |-> TitleElement(p, titleId),
                    dismiss |-> DismissElement(p),
                    content |-> p.content ]
                  @@ MuiDrawerProps(p, isOpen, titleId) ]

(***************************************************************************)
(* NavBar (src/unnamed/part_000, lines 355-507)                            *)
(***************************************************************************)
\* drawerProps bags (DrawerProps without open, openButton, openButtonProps): the one of
\* the BasicNavBar story, and one with neither title nor callbacks
DrawerPropsBags ==
    { [title |-> "Menu", content |-> "List", onOpen |-> "returns", onClose |-> "returns"],
      [content |-> "List"] }

\* the destructuring of NavBar's props with its defaults
NavBarProps(np) ==
    [ title       |-> Get(np, "title", Undefined),
      position    |-> Get(np, "position", "static"),
      color       |-> Get(np, "color", "primary"),
      showMenu    |-> Get(np, "showMenu", TRUE),
      drawerProps |-> Get(np, "drawerProps", NoProps),
      children    |-> Get(np, "children", Undefined) ]

\* the props NavBar gives its Drawer: open, openButton and the hamburger's bag, then
\* drawerProps spread over them
NavBarDrawerArgs(n) ==
    Spread([ open            |-> FALSE,
             openButton      |-> TRUE,
             openButtonProps |->
                 [ content   |-> "MenuIcon",
                   variant   |-> "text",
                   size      |-> "large",
                   color     |-> IF n.color = "primary" THEN "secondary" ELSE "primary",
                   ariaLabel |-> "Open navigation menu" ] ],
           n.drawerProps)

\* a NavBar that renders its Drawer whatever showMenu is
NavBarDrawerAlways(n) == {NavBarDrawerArgs(n)}

\* the Drawer element NavBar renders: showMenu && <Drawer ... />
NavBarDrawer(n) == IF n.showMenu THEN {NavBarDrawerArgs(n)} ELSE {}

(***************************************************************************)
(* Drawer: handlers and effect                                             *)
(***************************************************************************)
\* handleDrawerToggle as a toggle: it sets the opposite of the current state
handleDrawerToggleFlip(isOpen, p) ==
    [ setDrawerOpen |-> ~drawerOpen,
      onOpen        |-> isOpen /\ p.onOpen # Undefined,
      onClose       |-> ~isOpen /\ p.onClose # Undefined,
      throws        |-> IF isOpen /\ p.onOpen = "throws" THEN "onOpen"
                        ELSE IF ~isOpen /\ p.onClose = "throws" THEN "onClose"
                        ELSE "none" ]

\* handleDrawerToggle as an edge trigger: it notifies only when the state changes
handleDrawerToggleOnChange(isOpen, p) ==
    [ setDrawerOpen |-> isOpen,
      onOpen        |-> isOpen /\ ~drawerOpen /\ p.onOpen # Undefined,
      onClose       |-> ~isOpen /\ drawerOpen /\ p.onClose # Undefined,
      throws        |-> IF isOpen /\ ~drawerOpen /\ p.onOpen = "throws" THEN "onOpen"
                        ELSE IF ~isOpen /\ drawerOpen /\ p.onClose = "throws" THEN "onClose"
                        ELSE "none" ]

\* handleDrawerToggle with the callbacks called inside try/catch
handleDrawerToggleCatches(isOpen, p) ==
    [ setDrawerOpen |-> isOpen,
      onOpen        |-> isOpen /\ p.onOpen # Undefined,
      onClose       |-> ~isOpen /\ p.onClose # Undefined,
      throws        |-> "none" ]

\* handleDrawerToggle with the callback called before the state is set: a callback
\* that throws leaves the state as it is
handleDrawerToggleNotifiesFirst(isOpen, p) ==
    LET throwing == IF isOpen /\ p.onOpen = "throws" THEN "onOpen"
                    ELSE IF ~isOpen /\ p.onClose = "throws" THEN "onClose"
                    ELSE "none"
    IN  [ setDrawerOpen |-> IF throwing = "none" THEN isOpen ELSE drawerOpen,
          onOpen        |-> isOpen /\ p.onOpen # Undefined,
          onClose       |-> ~isOpen /\ p.onClose # Undefined,
          throws        |-> throwing ]

\* what handleDrawerToggle(isOpen) does: the state it sets, the callbacks it
\* calls, and the exception that leaves it
handleDrawerToggle(isOpen, p) ==
    [ setDrawerOpen |-> isOpen,
      onOpen        |-> isOpen /\ p.onOpen # Undefined,
      onClose       |-> ~isOpen /\ p.onClose # Undefined,
      throws        |-> IF isOpen /\ p.onOpen = "throws" THEN "onOpen"
                        ELSE IF ~isOpen /\ p.onClose = "throws" THEN "onClose"
                        ELSE "none" ]

\* the effect, notifying the caller of the value it copies
SyncEffectNotifying(p) ==
    [ setDrawerOpen |-> p.open,
      onOpen        |-> p.open /\ p.onOpen # Undefined,
      onClose       |-> ~p.open /\ p.onClose # Undefined ]

\* what the effect does: it sets the state to the open prop and calls nothing
SyncEffect(p) ==
    [ setDrawerOpen |-> p.open, onOpen |-> FALSE, onClose |-> FALSE ]

\* the effect's dependency list
EffectDeps(p) == <<p.open>>

\* an effect with an empty dependency list: it runs after the mount only
DepsChangedNever(prevDeps, nextDeps) == FALSE

\* an effect without a dependency list: it runs after every render
DepsChangedAlways(prevDeps, nextDeps) == TRUE

\* an effect is scheduled by a commit whose dependencies differ from the last
DepsChanged(prevDeps, nextDeps) == prevDeps # nextDeps

(***************************************************************************)
(* React: the useState queue                                               *)
(***************************************************************************)
Update(lane, action) == [lane |-> lane, action |-> action]

\* the lanes a render of the given priority works on
RenderLanes(lane) == IF lane = "sync" THEN {"sync"} ELSE {"sync", "default"}

\* the queue, after the pending passive effect (if any) has run
FlushPassive(q, pending, p) ==
    IF pending THEN Append(q, Update("default", SyncEffect(p).setDrawerOpen)) ELSE q

\* the number of calls a call (or none) makes
Calls(called) == IF called THEN 1 ELSE 0

\* nothing waits: no effect to run, no update to render
Settled == ~effectPending /\ queue = <<>>

\* a call of setDrawerOpen: by a click handler ("user") or by the effect ("effect")
Call(by, value) == [by |-> by, value |-> value]

\* the call the effect makes when it runs with the props p (none when it does not run)
EffectCalls(runs, p) == IF runs THEN <<Call("effect", SyncEffect(p).setDrawerOpen)>> ELSE <<>>

\* the record of the cycle after the calls: a cycle starts when nothing waits; the
\* last two calls are kept
Delivered(calls) ==
    LET all == (IF Settled THEN <<>> ELSE delivered) \o calls
    IN  IF Len(all) <= 2 THEN all ELSE SubSeq(all, Len(all) - 1, Len(all))

RECURSIVE processUpdatesNoRebase(_, _, _, _, _)
\* an update loop that keeps the skipped updates only: an update applied after a
\* skipped one is not replayed
processUpdatesNoRebase(q, lanes, newState, newBaseState, newBaseQueue) ==
    IF q = <<>>
    THEN [ memoizedState |-> newState,
           baseState     |-> IF newBaseQueue = <<>> THEN newState ELSE newBaseState,
           baseQueue     |-> newBaseQueue ]
    ELSE LET update == Head(q) IN
         IF update.lane \notin lanes \cup {"none"}
         THEN processUpdatesNoRebase(Tail(q), lanes, newState,
                                     IF newBaseQueue = <<>> THEN newState ELSE newBaseState,
                                     Append(newBaseQueue, update))
         ELSE processUpdatesNoRebase(Tail(q), lanes, update.action, newBaseState,
                                     newBaseQueue)

RECURSIVE processUpdates(_, _, _, _, _)
\* the update loop of a render: an update outside the render's lanes is skipped
\* and kept, with every update after it, to be replayed on the state before it
processUpdates(q, lanes, newState, newBaseState, newBaseQueue) ==
    IF q = <<>>
    THEN [ memoizedState |-> newState,
           baseState     |-> IF newBaseQueue = <<>> THEN newState ELSE newBaseState,
           baseQueue     |-> newBaseQueue ]
    ELSE LET update == Head(q) IN
         IF update.lane \notin lanes \cup {"none"}
         THEN processUpdates(Tail(q), lanes, newState,
                             IF newBaseQueue = <<>> THEN newState ELSE newBaseState,
                             Append(newBaseQueue, update))
         ELSE processUpdates(Tail(q), lanes, update.action, newBaseState,
                             IF newBaseQueue = <<>> THEN <<>>
                             ELSE Append(newBaseQueue, Update("none", update.action)))

\* a useState that never applies an update: the state stays what it was
useStateDropsUpdates(q, lanes) ==
    [memoizedState |-> baseState, baseState |-> baseState, baseQueue |-> <<>>]

\* useState in a render of the given lanes
useState(q, lanes) == processUpdates(q, lanes, baseState, baseState, <<>>)

\* one state cell for every instance: a variable of the module, not of the component
HookOwnerModule(instance) == "first"

\* the instance whose fiber holds the state that the instance's useState call reads and
\* its setDrawerOpen writes: React keeps the hooks of a component per mounted instance
HookOwner(instance) == instance

\* the commit of a render: hook state, element tree, and the surface in the document
Commit(newArgs, hook) ==
    /\ args' = newArgs
    /\ drawerOpen' = hook.memoizedState
    /\ baseState' = hook.baseState
    /\ view' = Render(DrawerProps(newArgs), hook.memoizedState, TitleId)
    /\ surfaceMounted' = (surfaceMounted \/ hook.memoizedState)

(***************************************************************************)
(* Initial state: the commit of the mount; its effect has not run yet      *)
(***************************************************************************)
\* the props at mount: open and the two callbacks, each given or left out
BehaviourArgs ==
    Optional(Optional(Optional({NoProps}, "open", BOOLEAN), "onOpen", Callbacks),
             "onClose", Callbacks)

\* the props at mount: the two control flags, each given or left out
ControlsArgs ==
    Optional(Optional({[onOpen |-> "returns", onClose |-> "returns"]},
             "openButton", BOOLEAN), "closeButton", BOOLEAN)

\* the props at mount: the openButtonProps bag, given or left out
TriggerArgs ==
    Optional(Optional({[onOpen |-> "returns"]}, "openButtonProps", OpenButtonPropsBags),
             "open", BOOLEAN)

\* the props at mount: position and width, each given or left out
LayoutArgs == Optional(Optional({NoProps}, "position", Positions), "width", Widths)

\* the props at mount: the title, given (empty or not) or left out
TitleArgs == Optional(Optional({NoProps}, "title", Titles), "open", BOOLEAN)

\* a mount whose state starts closed whatever the open prop: useState(false)
MountClosed(a) ==
    /\ args = a
    /\ drawerOpen = FALSE
    /\ baseState = FALSE
    /\ queue = <<>>
    /\ effectPending = TRUE
    /\ view = Render(DrawerProps(a), FALSE, TitleId)
    /\ surfaceMounted = FALSE
    /\ requestOpens = 0
    /\ requestCloses = 0
    /\ onOpenCalls = 0
    /\ onCloseCalls = 0
    /\ thrown = "none"
    /\ repeated = FALSE
    /\ lastEvent = "mount"
    /\ delivered = <<>>

\* the first render and its commit: useState(open) seeds the state
Mount(a) ==
    /\ args = a
    /\ drawerOpen = DrawerProps(a).open
    /\ baseState = DrawerProps(a).open
    /\ queue = <<>>
    /\ effectPending = TRUE
    /\ view = Render(DrawerProps(a), DrawerProps(a).open, TitleId)
    /\ surfaceMounted = DrawerProps(a).open
    /\ requestOpens = 0
    /\ requestCloses = 0
    /\ onOpenCalls = 0
    /\ onCloseCalls = 0
    /\ thrown = "none"
    /\ repeated = FALSE
    /\ lastEvent = "mount"
    /\ delivered = <<>>

\* the props of the two Drawers of one tree: a title and both callbacks given
InstanceArgs == {[title |-> "Settings", onOpen |-> "returns", onClose |-> "returns"]}

\* the first render and commit of the second instance
MountSibling(a) ==
    [ args          |-> a,
      drawerOpen    |-> DrawerProps(a).open,
      baseState     |-> DrawerProps(a).open,
      queue         |-> <<>>,
      effectPending |-> TRUE,
      view          |-> Render(DrawerProps(a), DrawerProps(a).open, SiblingTitleId),
      onOpenCalls   |-> 0,
      onCloseCalls  |-> 0 ]

\* one Drawer, rendered by the application itself
Standalone == sibling = {} /\ navBar = {} /\ contrast = {}

Init == \E a \in BehaviourArgs : Mount(a) /\ Standalone

InitControls == \E a \in ControlsArgs : Mount(a) /\ Standalone

InitTrigger == \E a \in TriggerArgs : Mount(a) /\ Standalone

InitLayout == \E a \in LayoutArgs : Mount(a) /\ Standalone

InitTitle == \E a \in TitleArgs : Mount(a) /\ Standalone

\* the props of a NavBar at its mount: showMenu and drawerProps, each given or left out
NavBarArgs == Optional(Optional({NoProps}, "showMenu", BOOLEAN), "drawerProps", DrawerPropsBags)

\* the element tree of no Drawer: neither Trigger nor surface
NoView == [trigger |-> {}]

\* no Drawer instance is mounted
NotMounted ==
    /\ args = NoProps
    /\ drawerOpen = FALSE
    /\ baseState = FALSE
    /\ queue = <<>>
    /\ effectPending = FALSE
    /\ view = NoView
    /\ surfaceMounted = FALSE
    /\ requestOpens = 0
    /\ requestCloses = 0
    /\ onOpenCalls = 0
    /\ onCloseCalls = 0
    /\ thrown = "none"
    /\ repeated = FALSE
    /\ lastEvent = "none"
    /\ delivered = <<>>

\* a NavBar is mounted, and with it the Drawer it renders, if any
InitNavBar ==
    \E np \in NavBarArgs :
        /\ navBar = {np}
        /\ sibling = {}
        /\ contrast = {}
        /\ IF NavBarDrawer(NavBarProps(np)) = {}
           THEN NotMounted
           ELSE \E a \in NavBarDrawer(NavBarProps(np)) : Mount(a)

\* two Drawers mounted by the same commit
InitInstances ==
    \E a \in InstanceArgs, b \in InstanceArgs :
        Mount(a) /\ sibling = {MountSibling(b)} /\ navBar = {} /\ contrast = {}

(***************************************************************************)
(* Actions                                                                 *)
(***************************************************************************)
\* a click handler calls handleDrawerToggle(isOpen); React renders the sync
\* lane before the task ends, after the passive effect still pending
Request(isOpen, event) ==
    LET h == handleDrawerToggle(isOpen, props)
        e == SyncEffect(props)
        q == FlushPassive(Append(queue, Update("sync", h.setDrawerOpen)),
                          effectPending, props)
        hook == useState(q, RenderLanes("sync"))
    IN  /\ Len(hook.baseQueue) <= MaxQueue
        /\ IF isOpen THEN requestOpens < MaxCalls ELSE requestCloses < MaxCalls
        /\ Commit(args, hook)
        /\ queue' = hook.baseQueue
        /\ effectPending' = FALSE
        /\ requestOpens' = requestOpens + Calls(isOpen)
        /\ requestCloses' = requestCloses + Calls(~isOpen)
        /\ onOpenCalls' = onOpenCalls + Calls(h.onOpen) + Calls(effectPending /\ e.onOpen)
        /\ onCloseCalls' = onCloseCalls + Calls(h.onClose) + Calls(effectPending /\ e.onClose)
        /\ thrown' = h.throws
        /\ repeated' = (view.surface.open = isOpen)
        /\ lastEvent' = event
        /\ delivered' = Delivered(<<Call("user", h.setDrawerOpen)>>
                                  \o EffectCalls(effectPending, props))
        /\ UNCHANGED <<sibling, navBar, contrast>>

\* a click that reaches no handler of the Drawer
NoRequest(event) ==
    /\ lastEvent' = event
    /\ thrown' = "none"
    /\ repeated' = FALSE
    /\ UNCHANGED <<args, drawerOpen, baseState, queue, effectPending, view,
                   surfaceMounted, requestOpens, requestCloses, onOpenCalls,
                   onCloseCalls, sibling, navBar, contrast, delivered>>

\* the user activates the Trigger Control
ActivateTrigger ==
    \E button \in view.trigger :
        IF ~ButtonDisabled(button) /\ button.onClick = OpenHandler
        THEN Request(TRUE, "trigger")
        ELSE NoRequest("trigger")

\* the user activates the Dismiss Control of a surface in the document
ActivateDismiss ==
    /\ surfaceMounted
    /\ \E button \in view.surface.dismiss :
        IF ~ButtonDisabled(button) /\ button.onClick = CloseHandler
        THEN Request(FALSE, "dismiss")
        ELSE NoRequest("dismiss")

\* the surface in the document calls its onClose: backdrop click or Escape
SurfaceClose ==
    /\ surfaceMounted
    /\ view.surface.onClose = CloseHandler
    /\ \E reason \in {"backdropClick", "escapeKeyDown"} : Request(FALSE, reason)

\* the bag with one key set, and with one key left out
SetKey(bag, key, v) == [k \in DOMAIN bag \cup {key} |-> IF k = key THEN v ELSE bag[k]]

DropKey(bag, key) == [k \in DOMAIN bag \ {key} |-> bag[k]]

\* the values a parent passes for a prop
PropValues(key) ==
    CASE key = "title" -> Titles
      [] key = "drawerProps" -> DrawerPropsBags
      [] key = "position" -> Positions
      [] key = "width" -> Widths
      [] OTHER -> BOOLEAN

\* the props of a next render: the same, or one of the keys set or left out
NextArgs(a, keys) ==
    {a} \cup { DropKey(a, key) : key \in keys }
        \cup UNION { { SetKey(a, key, v) : v \in PropValues(key) } : key \in keys }

\* the Drawer is rendered again with the props newArgs, in an update of the given lane
RerenderTo(newArgs, lane) ==
    LET p == DrawerProps(newArgs)
        hook == useState(FlushPassive(queue, effectPending, props), RenderLanes(lane))
        changed == DepsChanged(EffectDeps(props), EffectDeps(p))
        \* the passive effects of a sync render run before the task ends
        atOnce == changed /\ lane = "sync"
        q == FlushPassive(hook.baseQueue, atOnce, p)
    IN  /\ Len(q) <= MaxQueue
        /\ Commit(newArgs, hook)
        /\ queue' = q
        /\ effectPending' = (changed /\ ~atOnce)
        /\ onOpenCalls' = onOpenCalls + Calls(effectPending /\ SyncEffect(props).onOpen)
                                      + Calls(atOnce /\ SyncEffect(p).onOpen)
        /\ onCloseCalls' = onCloseCalls + Calls(effectPending /\ SyncEffect(props).onClose)
                                        + Calls(atOnce /\ SyncEffect(p).onClose)
        /\ lastEvent' = IF p.open # props.open THEN "openChange" ELSE lastEvent
        /\ delivered' = IF Settled /\ ~changed THEN delivered
                        ELSE Delivered(EffectCalls(effectPending, props)
                                       \o EffectCalls(atOnce, p))
        /\ UNCHANGED <<requestOpens, requestCloses, thrown, repeated, sibling, contrast>>

\* the parent renders the Drawer again, with one of the keys changed or with the same
\* props
RerenderWith(keys) ==
    \E newArgs \in NextArgs(args, keys), lane \in {"sync", "default"} :
        RerenderTo(newArgs, lane) /\ UNCHANGED navBar

\* the parent changes the open prop, or renders with the same props
Rerender == RerenderWith({"open"})

\* the parent changes openButton or closeButton
RerenderControls == RerenderWith({"openButton", "closeButton"})

\* the parent changes position or width
RerenderLayout == RerenderWith({"position", "width"})

\* the parent changes the title
RerenderTitle == RerenderWith({"title"})

\* a commit mounts a Drawer with the props a: a new instance, with a new state
Remount(a, lane) ==
    /\ args' = a
    /\ drawerOpen' = DrawerProps(a).open
    /\ baseState' = DrawerProps(a).open
    /\ queue' = FlushPassive(<<>>, lane = "sync", DrawerProps(a))
    /\ effectPending' = (lane # "sync")
    /\ view' = Render(DrawerProps(a), DrawerProps(a).open, TitleId)
    /\ surfaceMounted' = DrawerProps(a).open
    /\ thrown' = "none"
    /\ repeated' = FALSE
    /\ lastEvent' = "mount"
    /\ delivered' = EffectCalls(lane = "sync", DrawerProps(a))
    /\ UNCHANGED <<requestOpens, requestCloses, onOpenCalls, onCloseCalls, sibling, contrast>>

\* a removal that reports the closing to the caller
UnmountNotifying ==
    /\ args' = NoProps
    /\ drawerOpen' = FALSE
    /\ baseState' = FALSE
    /\ queue' = <<>>
    /\ effectPending' = FALSE
    /\ view' = NoView
    /\ surfaceMounted' = FALSE
    /\ thrown' = "none"
    /\ repeated' = FALSE
    /\ lastEvent' = "unmount"
    /\ delivered' = <<>>
    /\ onCloseCalls' = onCloseCalls + Calls(props.onClose # Undefined)
    /\ UNCHANGED <<requestOpens, requestCloses, onOpenCalls, sibling, contrast>>

\* a commit removes the Drawer: its state, its pending effect and its elements are gone
Unmount ==
    /\ args' = NoProps
    /\ drawerOpen' = FALSE
    /\ baseState' = FALSE
    /\ queue' = <<>>
    /\ effectPending' = FALSE
    /\ view' = NoView
    /\ surfaceMounted' = FALSE
    /\ thrown' = "none"
    /\ repeated' = FALSE
    /\ lastEvent' = "unmount"
    /\ delivered' = <<>>
    /\ UNCHANGED <<requestOpens, requestCloses, onOpenCalls, onCloseCalls, sibling, contrast>>

\* the parent renders the NavBar again, with showMenu or drawerProps changed or with
\* the same props: its Drawer is rendered again, mounted, removed, or still absent
RerenderNavBar ==
    \E np \in navBar :
        \E next \in NextArgs(np, {"showMenu", "drawerProps"}), lane \in {"sync", "default"} :
            LET before == NavBarDrawer(NavBarProps(np))
                after == NavBarDrawer(NavBarProps(next))
            IN  /\ navBar' = {next}
                /\ IF after = {}
                   THEN IF before = {}
                        THEN next # np /\ lane = "sync" /\ UNCHANGED
                                <<args, drawerOpen, baseState, queue, effectPending, view,
                                  surfaceMounted, requestOpens, requestCloses, onOpenCalls,
                                  onCloseCalls, thrown, repeated, lastEvent, sibling, contrast,
                                  delivered>>
                        ELSE lane = "sync" /\ Unmount
                   ELSE \E a \in after :
                            IF before = {} THEN Remount(a, lane) ELSE RerenderTo(a, lane)

\* the second instance after a render of the lanes over the updates q, with the props a
SiblingCommit(s, a, q, lanes) ==
    LET hook == processUpdates(q, lanes, s.baseState, s.baseState, <<>>)
    IN  [ s EXCEPT !.args = a,
                   !.drawerOpen = hook.memoizedState,
                   !.baseState = hook.baseState,
                   !.queue = hook.baseQueue,
                   !.view = Render(DrawerProps(a), hook.memoizedState, SiblingTitleId) ]

\* a step of the second instance: rendered is the instance after the step, notified
\* is the instance with the step's callback calls only, and updates are the calls of
\* setDrawerOpen the step made; they reach the state cell of the instance's hook owner
SiblingStep(rendered, notified, updates) ==
    IF HookOwner("sibling") = "sibling"
    THEN /\ Len(rendered.queue) <= MaxQueue
         /\ sibling' = {rendered}
         /\ UNCHANGED <<args, drawerOpen, baseState, queue, effectPending, view,
                        surfaceMounted, requestOpens, requestCloses, onOpenCalls,
                        onCloseCalls, thrown, repeated, lastEvent, navBar, contrast,
                        delivered>>
    ELSE LET hook == useState(FlushPassive(queue \o updates, effectPending, props),
                              RenderLanes("sync"))
         IN  /\ Len(hook.baseQueue) <= MaxQueue
             /\ sibling' = {notified}
             /\ Commit(args, hook)
             /\ queue' = hook.baseQueue
             /\ effectPending' = FALSE
             /\ UNCHANGED <<requestOpens, requestCloses, onOpenCalls, onCloseCalls,
                            thrown, repeated, lastEvent, navBar, contrast, delivered>>

\* a control of the second instance calls its handleDrawerToggle(isOpen)
SiblingRequest ==
    \E s \in sibling, isOpen \in BOOLEAN :
        LET p == DrawerProps(s.args)
            h == handleDrawerToggle(isOpen, p)
            update == Update("sync", h.setDrawerOpen)
            notified == [ s EXCEPT !.onOpenCalls = @ + Calls(h.onOpen),
                                   !.onCloseCalls = @ + Calls(h.onClose) ]
            q == FlushPassive(Append(s.queue, update), s.effectPending, p)
        IN  /\ s.onOpenCalls + s.onCloseCalls < MaxCalls
            /\ isOpen \/ s.view.surface.open
            /\ SiblingStep(
                   [ SiblingCommit(notified, s.args, q, RenderLanes("sync"))
                       EXCEPT !.effectPending = FALSE ],
                   notified, <<update>>)

\* the parent of the second instance changes its open prop, in an update of the lane
SiblingRerender ==
    \E s \in sibling, lane \in {"sync", "default"} :
        \E newArgs \in NextArgs(s.args, {"open"}) \ {s.args} :
            LET p == DrawerProps(newArgs)
                prev == DrawerProps(s.args)
                changed == DepsChanged(EffectDeps(prev), EffectDeps(p))
                atOnce == changed /\ lane = "sync"
                r == SiblingCommit(s, newArgs, FlushPassive(s.queue, s.effectPending, prev),
                                   RenderLanes(lane))
                rendered == [ r EXCEPT !.queue = FlushPassive(r.queue, atOnce, p),
                                       !.effectPending = changed /\ ~atOnce ]
            IN  SiblingStep(rendered, [s EXCEPT !.args = newArgs],
                            FlushPassive(<<>>, s.effectPending, prev)
                                \o FlushPassive(<<>>, atOnce, p))

\* the scheduler runs the pending passive effect of the second instance
SiblingFlushPassiveEffects ==
    \E s \in sibling :
        /\ s.effectPending
        /\ SiblingStep(
               [ s EXCEPT !.queue = FlushPassive(s.queue, TRUE, DrawerProps(s.args)),
                          !.effectPending = FALSE ],
               [ s EXCEPT !.effectPending = FALSE ],
               FlushPassive(<<>>, TRUE, DrawerProps(s.args)))

\* the scheduler renders the default lane of the second instance
SiblingRenderDefault ==
    \E s \in sibling :
        /\ \E i \in 1..Len(s.queue) : s.queue[i].lane = "default"
        /\ SiblingStep(
               [ SiblingCommit(s, s.args,
                               FlushPassive(s.queue, s.effectPending, DrawerProps(s.args)),
                               RenderLanes("default"))
                   EXCEPT !.effectPending = FALSE ],
               s, <<>>)

\* the scheduler runs the pending passive effect: setDrawerOpen(open)
FlushPassiveEffects ==
    /\ effectPending
    /\ Len(queue) < MaxQueue
    /\ queue' = FlushPassive(queue, TRUE, props)
    /\ effectPending' = FALSE
    /\ onOpenCalls' = onOpenCalls + Calls(SyncEffect(props).onOpen)
    /\ onCloseCalls' = onCloseCalls + Calls(SyncEffect(props).onClose)
    /\ delivered' = Delivered(EffectCalls(TRUE, props))
    /\ UNCHANGED <<args, drawerOpen, baseState, view, surfaceMounted, requestOpens,
                   requestCloses, thrown, repeated, lastEvent, sibling, navBar, contrast>>

\* the scheduler renders the default lane
RenderDefault ==
    LET hook == useState(FlushPassive(queue, effectPending, props), RenderLanes("default"))
    IN  /\ \E i \in 1..Len(queue) : queue[i].lane = "default"
        /\ Commit(args, hook)
        /\ queue' = hook.baseQueue
        /\ effectPending' = FALSE
        /\ onOpenCalls' = onOpenCalls + Calls(effectPending /\ SyncEffect(props).onOpen)
        /\ onCloseCalls' = onCloseCalls + Calls(effectPending /\ SyncEffect(props).onClose)
        /\ delivered' = IF Settled THEN delivered
                        ELSE Delivered(EffectCalls(effectPending, props))
        /\ UNCHANGED <<requestOpens, requestCloses, thrown, repeated, lastEvent,
                       sibling, navBar, contrast>>

\* the closing transition of the surface ends: the surface leaves the document
ExitTransitionEnd ==
    /\ surfaceMounted
    /\ ~view.surface.open
    /\ surfaceMounted' = FALSE
    /\ UNCHANGED <<args, drawerOpen, baseState, queue, effectPending, view,
                   requestOpens, requestCloses, onOpenCalls, onCloseCalls, thrown,
                   repeated, lastEvent, sibling, navBar, contrast, delivered>>

Next ==
    \/ ActivateTrigger
    \/ ActivateDismiss
    \/ SurfaceClose
    \/ Rerender
    \/ FlushPassiveEffects
    \/ RenderDefault
    \/ ExitTransitionEnd

NextControls == Next \/ RerenderControls

NextLayout == Next \/ RerenderLayout

NextTitle == Next \/ RerenderTitle

NextNavBar ==
    \/ ActivateTrigger
    \/ ActivateDismiss
    \/ SurfaceClose
    \/ FlushPassiveEffects
    \/ RenderDefault
    \/ ExitTransitionEnd
    \/ RerenderNavBar

NextInstances ==
    \/ ActivateTrigger
    \/ SurfaceClose
    \/ FlushPassiveEffects
    \/ RenderDefault
    \/ SiblingRequest
    \/ SiblingRerender
    \/ SiblingFlushPassiveEffects
    \/ SiblingRenderDefault

\* two Drawers: both take requests, the title of the first changes
NextIds ==
    \/ ActivateTrigger
    \/ SurfaceClose
    \/ FlushPassiveEffects
    \/ RenderDefault
    \/ RerenderTitle
    \/ SiblingRequest
    \/ SiblingFlushPassiveEffects
    \/ SiblingRenderDefault

\* open and the callbacks vary
Spec == Init /\ [][Next]_vars

\* the control flags vary, at mount and between renders
SpecControls == InitControls /\ [][NextControls]_vars

\* the openButtonProps bag varies
SpecTrigger == InitTrigger /\ [][Next]_vars

\* position and width vary, at mount and between renders
SpecLayout == InitLayout /\ [][NextLayout]_vars

\* the title varies, at mount and between renders
SpecTitle == InitTitle /\ [][NextTitle]_vars

\* a NavBar and the Drawer it renders
SpecNavBar == InitNavBar /\ [][NextNavBar]_vars

\* two instances in one tree
SpecInstances == InitInstances /\ [][NextInstances]_vars

\* two Drawers of one tree, the title of the first varies
SpecIds == InitInstances /\ [][NextIds]_vars

(***************************************************************************)
(* Theme and contrast report (src/unnamed/part_002)                        *)
(*                                                                         *)
(* A colour '#1a237e' is written as its six hexadecimal digits. The        *)
(* floating-point numbers of the report are fixed-point numbers with six   *)
(* decimals, each operation rounding down; the ratio is in hundredths, as  *)
(* toFixed(2) prints it.                                                   *)
(***************************************************************************)
White == <<15, 15, 15, 15, 15, 15>>

\* theme.palette
Palette ==
    [ primaryMain    |-> <<1, 10, 2, 3, 7, 14>>,
      primaryLight   |-> <<5, 3, 4, 11, 10, 14>>,
      primaryDark    |-> <<0, 0, 0, 0, 5, 1>>,
      secondaryMain  |-> <<11, 15, 3, 6, 0, 12>>,
      secondaryLight |-> <<13, 8, 4, 3, 1, 5>>,
      secondaryDark  |-> <<12, 4, 3, 14, 0, 0>>,
      errorMain      |-> <<13, 3, 2, 15, 2, 15>>,
      warningMain    |-> <<14, 6, 5, 1, 0, 0>>,
      infoMain       |-> <<0, 2, 7, 7, 11, 13>>,
      successMain    |-> <<2, 14, 7, 13, 3, 2>> ]

\* the backgrounds of the report's colors list
ReportColors ==
    { <<1, 10, 2, 3, 7, 14>>, <<5, 3, 4, 11, 10, 14>>, <<0, 0, 0, 0, 5, 1>>,
      <<13, 8, 4, 3, 1, 5>>, <<11, 15, 3, 6, 0, 12>>, <<14, 6, 4, 10, 1, 9>>,
      <<12, 4, 3, 14, 0, 0>>, <<13, 3, 2, 15, 2, 15>>, <<14, 6, 5, 1, 0, 0>>,
      <<0, 2, 7, 7, 11, 13>>, <<2, 14, 7, 13, 3, 2>> }

\* the colours the palette was adjusted from: #ff6f00, #ffa040, #f57c00, #0288d1, #388e3c
ReplacedColors ==
    { <<15, 15, 6, 15, 0, 0>>, <<15, 15, 10, 0, 4, 0>>, <<15, 5, 7, 12, 0, 0>>,
      <<0, 2, 8, 8, 13, 1>>, <<3, 8, 8, 14, 3, 12>> }

\* the colours a run of the report is given
Colors == {Palette[name] : name \in DOMAIN Palette} \cup ReportColors \cup ReplacedColors
              \cup {White}

RECURSIVE parseInt(_)
\* parseInt(hex.slice(1), 16)
parseInt(digits) ==
    IF digits = <<>> THEN 0
    ELSE parseInt(SubSeq(digits, 1, Len(digits) - 1)) * 16 + digits[Len(digits)]

\* the fixed-point unit: 1.0
Unit == 1000000

\* a * b of two numbers up to 1.0, rounded down, in 32-bit steps
Mul(a, b) ==
    LET a1 == a \div 1000
        a0 == a % 1000
        b1 == b \div 1000
        b0 == b % 1000
    IN  a1 * b1 + ((a1 * b0 + a0 * b1) * 1000 + a0 * b0) \div Unit

Pow5(r) == Mul(Mul(Mul(Mul(r, r), r), r), r)

RECURSIVE Root5(_, _, _)
\* the greatest r in lo..hi with r^5 <= z
Root5(z, lo, hi) ==
    IF lo >= hi THEN lo
    ELSE LET mid == (lo + hi + 1) \div 2
         IN  IF Pow5(mid) <= z THEN Root5(z, mid, hi) ELSE Root5(z, lo, mid - 1)

\* Math.pow(y, 2.4) = y^2 * (y^2)^(1/5)
Pow24(y) == Mul(Mul(y, y), Root5(Mul(y, y), 0, Unit))

\* c <= 0.03928 ? c / 12.92 : Math.pow((c + 0.055) / 1.055, 2.4), for a channel 0..255
Linearize(channel) ==
    LET c == (channel * Unit) \div 255
    IN  IF c <= 39280 THEN (c * 100) \div 1292
        ELSE Pow24(((c + 55000) * 1000) \div 1055)

\* getLuminance with the weights of red and green exchanged
getLuminanceSwapped(hex) ==
    LET rgb == parseInt(hex)
        r == (rgb \div 65536) % 256
        g == (rgb \div 256) % 256
        b == rgb % 256
    IN  Mul(715200, Linearize(r)) + Mul(212600, Linearize(g)) + Mul(72200, Linearize(b))

getLuminance(hex) ==
    LET rgb == parseInt(hex)
        r == (rgb \div 65536) % 256
        g == (rgb \div 256) % 256
        b == rgb % 256
    IN  Mul(212600, Linearize(r)) + Mul(715200, Linearize(g)) + Mul(72200, Linearize(b))

Max(a, b) == IF a >= b THEN a ELSE b

Min(a, b) == IF a <= b THEN a ELSE b

\* ((lighter + 0.05) / (darker + 0.05)).toFixed(2), in hundredths
getContrastRatio(color1, color2) ==
    LET l1 == getLuminance(color1)
        l2 == getLuminance(color2)
        lighter == Max(l1, l2)
        darker == Min(l1, l2)
    IN  (200 * (lighter + 50000) + (darker + 50000)) \div (2 * (darker + 50000))

\* ratio >= 4.5 ? 'PASS' : ratio >= 3.0 ? 'LARGE TEXT OK' : 'FAIL'
Status(ratio) ==
    IF ratio >= 450 THEN "PASS" ELSE IF ratio >= 300 THEN "LARGE TEXT OK" ELSE "FAIL"

\* everything but the report
drawerVars ==
    <<args, drawerOpen, baseState, queue, effectPending, view, surfaceMounted,
      requestOpens, requestCloses, onOpenCalls, onCloseCalls, thrown, repeated,
      lastEvent, sibling, navBar, delivered>>

\* the report is about to handle one entry: a background and a foreground
InitContrast ==
    /\ NotMounted /\ sibling = {} /\ navBar = {}
    /\ \E bg \in Colors, fg \in Colors :
          contrast = {[bg |-> bg, fg |-> fg, stage |-> "entry", ratio |-> 0,
                       status |-> Undefined]}

\* const ratio = getContrastRatio(c.bg, c.fg)
ComputeRatio ==
    /\ \E c \in contrast :
          /\ c.stage = "entry"
          /\ contrast' = {[c EXCEPT !.stage = "ratio",
                                    !.ratio = getContrastRatio(c.bg, c.fg)]}
    /\ UNCHANGED drawerVars

\* const status = ...; console.log(...)
LogStatus ==
    /\ \E c \in contrast :
          /\ c.stage = "ratio"
          /\ contrast' = {[c EXCEPT !.stage = "logged", !.status = Status(c.ratio)]}
    /\ UNCHANGED drawerVars

NextContrast == ComputeRatio \/ LogStatus

\* the contrast report on a pair of colours
SpecContrast == InitContrast /\ [][NextContrast]_vars

(***************************************************************************)
(* Claims                                                                  *)
(***************************************************************************)
\* the step calls handleDrawerToggle(true), or handleDrawerToggle(false)
RequestOpenStep == requestOpens' # requestOpens

RequestCloseStep == requestCloses' # requestCloses

\* C1: every requestOpen leaves the rendered surface visible and every requestClose
\* leaves it hidden, so after a sequence of calls the last call decides; a call that
\* repeats the current state leaves the visibility as it was; and a call made when
\* nothing waits leaves nothing waiting that could change the visibility afterwards.
C1_LastCallWins ==
    [][ /\ RequestOpenStep => view'.surface.open
        /\ RequestCloseStep => ~view'.surface.open
        /\ (RequestOpenStep /\ view.surface.open) \/ (RequestCloseStep /\ ~view.surface.open)
             => view'.surface.open = view.surface.open
        /\ (RequestOpenStep \/ RequestCloseStep) /\ Settled => Settled'
      ]_vars

\* after a close, the Trigger was activated while the surface was showing: the surface
\* still shows, though the open prop is false
C1_Witness ==
    /\ requestOpens >= 2 /\ requestCloses >= 1
    /\ lastEvent = "trigger" /\ repeated /\ Settled
    /\ view.surface.open /\ ~props.open

\* C2: once a change of the open prop is reconciled (its effect has run and its update
\* is rendered, and no control was activated since), the internal visibility and the
\* rendered surface equal the new open value, whatever the visibility was before.
C2_ExternalChangeOverwrites ==
    (lastEvent = "openChange" /\ Settled)
        => (drawerOpen = props.open /\ view.surface.open = props.open)

\* the user opened the panel and never closed it; the open prop then became false,
\* and the panel is closed
C2_Witness ==
    /\ lastEvent = "openChange" /\ Settled
    /\ requestOpens >= 1 /\ requestCloses = 0
    /\ ~props.open /\ ~drawerOpen

\* C3: a step that changes the open prop calls neither onOpen nor onClose, and so does
\* every step that reconciles it; onOpen is called only in a requestOpen step and
\* onClose only in a requestClose step.
C3_ExternalSyncIsSilent ==
    [][ /\ props'.open # props.open => UNCHANGED <<onOpenCalls, onCloseCalls>>
        /\ onOpenCalls' # onOpenCalls => RequestOpenStep
        /\ onCloseCalls' # onCloseCalls => RequestCloseStep
      ]_vars

\* the open prop became true and the panel shows; onOpen is provided and was never called
C3_Witness ==
    /\ lastEvent = "openChange" /\ Settled
    /\ props.open /\ view.surface.open
    /\ props.onOpen # Undefined /\ onOpenCalls = 0 /\ requestOpens = 0

\* C4: every requestOpen calls onOpen once, if provided, and never onClose; every
\* requestClose calls onClose once, if provided, and never onOpen, also when the panel
\* is already in the requested state; so the calls of a provided callback number the
\* requests.
C4_CallbacksOnEveryRequest ==
    /\ [][ /\ RequestOpenStep =>
                /\ onOpenCalls' = onOpenCalls + Calls(props.onOpen # Undefined)
                /\ onCloseCalls' = onCloseCalls
           /\ RequestCloseStep =>
                /\ onCloseCalls' = onCloseCalls + Calls(props.onClose # Undefined)
                /\ onOpenCalls' = onOpenCalls
         ]_vars
    /\ [](/\ onOpenCalls = (IF props.onOpen # Undefined THEN requestOpens ELSE 0)
          /\ onCloseCalls = (IF props.onClose # Undefined THEN requestCloses ELSE 0))

\* the second of two opens found the surface showing: onOpen was called twice, and
\* onClose, though provided, never
C4_Witness ==
    /\ requestOpens = 2 /\ requestCloses = 0 /\ onOpenCalls = 2
    /\ lastEvent = "trigger" /\ repeated
    /\ props.onClose # Undefined /\ onCloseCalls = 0

C6_VisibleIffDrawerOpen ==
    /\ view.surface.open \in BOOLEAN
    /\ view.surface.open = drawerOpen

\* the surface shows while the open prop is false
C6_Witness == view.surface.open /\ ~props.open /\ Settled /\ requestOpens >= 1

\* C7: the Trigger is rendered if and only if openButton is true, the Dismiss Control
\* if and only if closeButton is true, each flag true when left out, whatever the
\* visibility and the other flag.
C7_ControlsFollowFlags ==
    /\ (view.trigger # {}) = props.openButton
    /\ (view.surface.dismiss # {}) = props.closeButton
    /\ "openButton" \notin DOMAIN args => view.trigger # {}
    /\ "closeButton" \notin DOMAIN args => view.surface.dismiss # {}
    /\ Cardinality(view.trigger) <= 1
    /\ Cardinality(view.surface.dismiss) <= 1

\* openButton is false and closeButton is left out, the surface shows: no Trigger,
\* one Dismiss Control
C7_Witness ==
    /\ "openButton" \in DOMAIN args /\ ~args.openButton
    /\ "closeButton" \notin DOMAIN args
    /\ view.surface.open
    /\ view.trigger = {} /\ view.surface.dismiss # {}

\* the Trigger is activated on a Drawer mounted with open false and the Trigger
\* rendered, before any other event
FirstTriggerStep ==
    /\ lastEvent = "mount" /\ lastEvent' = "trigger"
    /\ ~props.open /\ props.openButton /\ view.trigger # {}

\* the bag leaves the Trigger its handler and leaves it enabled
KeepsTrigger(bag) ==
    /\ "onClick" \notin DOMAIN bag
    /\ ~Get(bag, "disabled", FALSE)
    /\ ~Get(bag, "loading", FALSE)

\* C8, as claimed: on a Drawer mounted with open false and openButton true, for any
\* openButtonProps bag, activating the Trigger leaves the surface visible and onOpen
\* called exactly once.
C8_AnyBagOpens ==
    [][ FirstTriggerStep => (view'.surface.open /\ onOpenCalls' = 1) ]_vars

\* C8, amended: on a Drawer mounted with open false and openButton true, for any
\* openButtonProps bag that sets neither disabled nor loading to true and has no
\* onClick of its own, activating the Trigger performs requestOpen: the surface is
\* visible and onOpen has been called exactly once.
C8_TriggerOpens ==
    [][ (FirstTriggerStep /\ KeepsTrigger(props.openButtonProps))
            => (RequestOpenStep /\ view'.surface.open /\ onOpenCalls' = 1) ]_vars

\* a bag with display options only was given; the Trigger was activated once: the
\* surface shows and onOpen was called once
C8_Witness ==
    /\ "openButtonProps" \in DOMAIN args /\ "content" \in DOMAIN args.openButtonProps
    /\ lastEvent = "trigger" /\ requestOpens = 1 /\ requestCloses = 0
    /\ view.surface.open /\ onOpenCalls = 1 /\ ~props.open

\* the events that ask the surface to close
CloseEvents == {"dismiss", "backdropClick", "escapeKeyDown"}

\* C9: the Dismiss Control, a backdrop click and Escape each perform requestClose, and
\* every requestClose leaves the surface hidden and onClose called once more (and
\* onOpen not at all), whether or not the Dismiss Control is rendered.
C9_DismissalsRequestClose ==
    [][ /\ (lastEvent' \in CloseEvents /\ lastEvent' # lastEvent) => RequestCloseStep
        /\ RequestCloseStep =>
              /\ lastEvent' \in CloseEvents
              /\ requestCloses' = requestCloses + 1
              /\ ~view'.surface.open
              /\ onCloseCalls' = onCloseCalls + Calls(props.onClose # Undefined)
              /\ onOpenCalls' = onOpenCalls
      ]_vars

\* closeButton is false and no Dismiss Control is rendered; the panel was opened and a
\* backdrop click closed it: onClose was called once
C9_Witness ==
    /\ ~props.closeButton /\ view.surface.dismiss = {}
    /\ lastEvent = "backdropClick" /\ requestOpens = 1 /\ requestCloses = 1
    /\ ~repeated /\ ~view.surface.open
    /\ props.onClose # Undefined /\ onCloseCalls = 1

\* the sizing dimensions
SizeKeys == {"width", "height"}

\* C10: the sizing of the surface follows the current position and width: for left and
\* right exactly the width is set, for top and bottom exactly the height, and the
\* value set is the width prop, 400 when it is left out.
C10_SizingFollowsPosition ==
    LET sx == view.surface.sx
        dims == DOMAIN sx \cap SizeKeys
    IN  /\ props.position \in {"left", "right"} => dims = {"width"}
        /\ props.position \in {"top", "bottom"} => dims = {"height"}
        /\ "position" \notin DOMAIN args => dims = {"width"}
        /\ \A d \in dims :
              sx[d] = (IF "width" \in DOMAIN args THEN args.width ELSE 400)

\* position top and width 200: the height of the showing surface is 200, and no
\* width is set
C10_Witness ==
    /\ "position" \in DOMAIN args /\ args.position = "top"
    /\ "width" \in DOMAIN args /\ args.width = 200
    /\ view.surface.open
    /\ DOMAIN view.surface.sx \cap SizeKeys = {"height"}
    /\ view.surface.sx.height = 200

\* C11: in every render, for a title left out, empty or non-empty, the surface carries
\* exactly one of aria-labelledby (the title's identifier) and the static aria-label
\* "Drawer": the first when the title is a non-empty string, the second otherwise.
C11_ExactlyOneLabel ==
    LET paper == view.surface.paper
        byTitle == paper.labelledby # Undefined
        static == paper.label # Undefined
    IN  /\ byTitle # static
        /\ byTitle => paper.labelledby = TitleId
        /\ static => paper.label = "Drawer"
        /\ byTitle = (props.title \notin {Undefined, ""})

\* the title is given as the empty string and the Trigger opened the surface: the
\* surface carries the static label and no aria-labelledby
C11_Witness ==
    /\ "title" \in DOMAIN args /\ args.title = ""
    /\ view.surface.open /\ requestOpens >= 1
    /\ view.surface.paper.label = "Drawer"
    /\ view.surface.paper.labelledby = Undefined

\* C12: from the mount until a control is activated or the open prop changes its
\* value, the internal visibility and the rendered surface equal the open prop given at
\* the mount, false when it is left out, also after the effect of the mount has run and
\* its update is rendered; and neither onOpen nor onClose has been called.
C12_MountSeedsVisibility ==
    lastEvent = "mount" =>
        /\ drawerOpen = props.open
        /\ view.surface.open = props.open
        /\ "open" \notin DOMAIN args => (~drawerOpen /\ ~view.surface.open)
        /\ onOpenCalls = 0 /\ onCloseCalls = 0

\* mounted with open true and both callbacks; the effect of the mount has run and its
\* update is rendered: the surface shows and no callback was called
C12_Witness ==
    /\ lastEvent = "mount" /\ Settled
    /\ "open" \in DOMAIN args /\ args.open
    /\ drawerOpen /\ view.surface.open
    /\ props.onOpen # Undefined /\ props.onClose # Undefined
    /\ onOpenCalls = 0 /\ onCloseCalls = 0

\* the bounds of the model leave room for one more request of the kind
RoomFor(isOpen) ==
    /\ (IF isOpen THEN requestOpens ELSE requestCloses) < MaxCalls
    /\ Len(queue) + Calls(effectPending) < MaxQueue

\* C13: the visibility is one of two states, Closed (false) and Open (true); the state
\* at the mount is Closed when open is false and Open when open is true; every
\* requestOpen ends in Open and every requestClose in Closed; and no state is absorbing:
\* in every Closed state with the Trigger rendered, activating it leads to Open, and in
\* every Open state a backdrop click or Escape leads to Closed, and so does the Dismiss
\* Control when it is rendered.
C13_TwoStateMachine ==
    /\ drawerOpen = props.open
    /\ [](/\ drawerOpen \in BOOLEAN
          /\ (~drawerOpen /\ view.trigger # {} /\ RoomFor(TRUE))
                => ENABLED (ActivateTrigger /\ drawerOpen')
          /\ (drawerOpen /\ RoomFor(FALSE))
                => ENABLED (SurfaceClose /\ ~drawerOpen')
          /\ (drawerOpen /\ view.surface.dismiss # {} /\ RoomFor(FALSE))
                => ENABLED (ActivateDismiss /\ ~drawerOpen'))
    /\ [][ /\ RequestOpenStep => drawerOpen'
           /\ RequestCloseStep => ~drawerOpen' ]_vars

\* mounted Open, the panel was closed and the open prop is still true; the Trigger is
\* rendered: Open can be reached once more
C13_Witness ==
    /\ requestOpens = 0 /\ requestCloses = 1 /\ lastEvent \in CloseEvents
    /\ props.open /\ Settled
    /\ ~drawerOpen /\ view.trigger # {} /\ RoomFor(TRUE)
    /\ ENABLED (ActivateTrigger /\ drawerOpen')

\* C14: when the callback a request calls throws, its exception leaves the request as
\* it is: after a requestOpen the exception that left the handler is onOpen's if onOpen
\* throws and none otherwise, after a requestClose it is onClose's if onClose throws and
\* none otherwise; the Drawer swallows no exception and raises none of its own.
C14_CallbackExceptionPropagates ==
    [][ /\ RequestOpenStep =>
              thrown' = (IF props.onOpen = "throws" THEN "onOpen" ELSE "none")
        /\ RequestCloseStep =>
              thrown' = (IF props.onClose = "throws" THEN "onClose" ELSE "none")
      ]_vars

\* onClose throws and onOpen returns; the panel was opened, and a backdrop click asked
\* it to close: the exception of onClose left the handler
C14_Witness ==
    /\ props.onClose = "throws" /\ props.onOpen = "returns"
    /\ requestOpens = 1 /\ requestCloses = 1 /\ lastEvent = "backdropClick"
    /\ onCloseCalls = 1 /\ thrown = "onClose"

\* the state, the rendering and the callback counts of the first instance
FirstInstance ==
    <<args, drawerOpen, baseState, queue, effectPending, view, onOpenCalls, onCloseCalls>>

\* C15: with two Drawer instances mounted, a step of one (a requestOpen, a requestClose,
\* a change of its open prop, its effect, its render) leaves the other as it was: a step
\* that changes the second instance changes neither the visibility nor the callback
\* counts of the first, and a step that changes the first leaves the second unchanged.
C15_InstancesArePrivate ==
    [][ /\ sibling' # sibling => UNCHANGED FirstInstance
        /\ (RequestOpenStep \/ RequestCloseStep \/ FirstInstance' # FirstInstance)
              => sibling' = sibling
      ]_vars

\* the first instance was opened and shows; the second had its open prop set to true,
\* was opened and closed by its own controls and is hidden: each kept its own
\* visibility and its own callback counts
C15_Witness ==
    /\ view.surface.open /\ requestOpens = 1 /\ requestCloses = 0
    /\ onOpenCalls = 1 /\ onCloseCalls = 0 /\ Settled
    /\ \E s \in sibling :
          /\ "open" \in DOMAIN s.args /\ s.args.open
          /\ ~s.view.surface.open /\ ~s.drawerOpen
          /\ s.onOpenCalls = 1 /\ s.onCloseCalls = 1

\* C16: a NavBar renders its hamburger Trigger and its Drawer if and only if showMenu is
\* true (true when left out); a Drawer it has just mounted is closed; and the first
\* activation of the hamburger after the mount performs requestOpen: the surface shows,
\* with the title and the content of drawerProps, and drawerProps.onOpen, if given, is
\* called once.
C16_NavBarMenu ==
    /\ [](\A np \in navBar :
            LET n == NavBarProps(np)
            IN  /\ (view.trigger # {}) = n.showMenu
                /\ ("surface" \in DOMAIN view) = n.showMenu
                /\ "showMenu" \notin DOMAIN np => view.trigger # {}
                /\ \A button \in view.trigger : button.ariaLabel = "Open navigation menu"
                /\ (n.showMenu /\ lastEvent = "mount")
                      => (~drawerOpen /\ ~view.surface.open))
    /\ [][ \A np \in navBar :
             LET dp == NavBarProps(np).drawerProps
             IN  (lastEvent = "mount" /\ lastEvent' = "trigger") =>
                     /\ RequestOpenStep
                     /\ view'.surface.open
                     /\ view'.surface.title =
                            (IF "title" \in DOMAIN dp
                             THEN {[id |-> TitleId, text |-> dp.title]} ELSE {})
                     /\ view'.surface.content = Get(dp, "content", Undefined)
                     /\ onOpenCalls' = onOpenCalls + Calls("onOpen" \in DOMAIN dp)
                     /\ onCloseCalls' = onCloseCalls
         ]_vars

\* showMenu is left out and drawerProps are those of the BasicNavBar story; the
\* hamburger was activated once: the surface shows the title "Menu" and the content, and
\* onOpen was called once
C16_Witness ==
    /\ navBar = {[drawerProps |-> [title |-> "Menu", content |-> "List",
                                   onOpen |-> "returns", onClose |-> "returns"]]}
    /\ lastEvent = "trigger" /\ requestOpens = 1 /\ requestCloses = 0
    /\ view.surface.open /\ view.surface.content = "List"
    /\ \E t \in view.surface.title : t.text = "Menu"
    /\ onOpenCalls = 1 /\ onCloseCalls = 0

\* the openButtonProps bag sets disabled or loading to true
DisabledByBag ==
    Get(props.openButtonProps, "disabled", FALSE) \/ Get(props.openButtonProps, "loading", FALSE)

\* C17: an IconButton given disabled or loading is rendered disabled, and activating a
\* disabled button calls no onClick: every activation of a Trigger whose openButtonProps
\* set disabled or loading leaves the visibility, the rendering and the callback counts
\* as they were, and with such a Trigger no requestOpen is ever made and onOpen is
\* never called.
C17_DisabledTriggerInert ==
    /\ [](DisabledByBag =>
            /\ \A button \in view.trigger : ButtonDisabled(button)
            /\ requestOpens = 0 /\ onOpenCalls = 0)
    /\ [][ (ActivateTrigger /\ DisabledByBag) =>
               UNCHANGED <<drawerOpen, baseState, queue, view, requestOpens, requestCloses,
                           onOpenCalls, onCloseCalls>>
         ]_vars

\* openButtonProps set loading, onOpen is given, the open prop is false; the Trigger was
\* activated: the surface is hidden and onOpen was never called
C17_Witness ==
    /\ "openButtonProps" \in DOMAIN args /\ args.openButtonProps = [loading |-> TRUE]
    /\ view.trigger # {} /\ lastEvent = "trigger" /\ Settled
    /\ ~props.open /\ ~view.surface.open /\ ~drawerOpen
    /\ props.onOpen # Undefined /\ onOpenCalls = 0 /\ requestOpens = 0

\* the entry of the report that is logged for a colour of the palette on white
LoggedOnWhite(name) ==
    { c \in contrast : c.stage = "logged" /\ c.bg = Palette[name] /\ c.fg = White }

LargeTextOnly == {"secondaryLight", "warningMain"}

ExternalNotCopied ==
    /\ lastEvent = "openChange"
    /\ drawerOpen # props.open
    /\ effectPending \/ \E i \in DOMAIN queue : queue[i].lane = "default"

\* C20, as claimed: after the open prop changes, its reconciliation is applied before
\* any user interaction is handled: no request of the Trigger, the Dismiss Control or
\* the backdrop is processed in a state where the change is rendered but not yet
\* copied into the visibility.
C20_ReconciledBeforeInteraction ==
    [][ (RequestOpenStep \/ RequestCloseStep) => ~ExternalNotCopied ]_vars

\* the value carried by the most recent event: true for requestOpen, false for
\* requestClose, the open prop for a change of open and for the mount
LastEventValue ==
    CASE lastEvent = "trigger" -> TRUE
      [] lastEvent \in CloseEvents -> FALSE
      [] OTHER -> props.open

\* C21: after any interleaving of requestOpen, requestClose and changes of the open
\* prop, each fully processed before the next (the cycle of the last event held one
\* call of setDrawerOpen and nothing waits), the internal visibility is the value
\* carried by the most recent event, or the mount seed when there was none.
C21_MostRecentEventDecides ==
    (Settled /\ Len(delivered) = 1) =>
        /\ drawerOpen = LastEventValue
        /\ view.surface.open = LastEventValue

\* a requestOpen and a requestClose were made, then the open prop changed to true and
\* its update is rendered: the panel is open
C21_Witness ==
    /\ requestOpens >= 1 /\ requestCloses >= 1
    /\ lastEvent = "openChange" /\ props.open
    /\ Settled /\ Len(delivered) = 1
    /\ drawerOpen /\ view.surface.open

\* the extent applied to the surface: the value of its width or height
Extent == { view.surface.sx[d] : d \in DOMAIN view.surface.sx \cap SizeKeys }

\* C22, as claimed: the anchor and the extent of a mounted Drawer are fixed for the
\* lifetime of the instance: no step after the mount changes the anchor or the sizing
\* applied to the surface.
C22_LayoutFixed ==
    [][ view'.surface.anchor = view.surface.anchor /\ view'.surface.sx = view.surface.sx ]_vars

\* C22, amended: the anchor and the extent applied to the surface are the position and
\* the width of the current render (left and 400 when left out); a step that leaves the
\* two props as they are (a request, an effect, a render) leaves the anchor and the
\* sizing as they are, and only a re-render with another position or width changes them.
C22_LayoutFollowsProps ==
    /\ [](view.surface.anchor = props.position /\ Extent = {props.width})
    /\ [][ (props'.position = props.position /\ props'.width = props.width) =>
               (view'.surface.anchor = view.surface.anchor
                /\ view'.surface.sx = view.surface.sx) ]_vars

\* the Drawer is anchored right with extent 200; it was opened and closed again, and the
\* surface still is anchored right with width 200
C22_Witness ==
    /\ props.position = "right" /\ props.width = 200
    /\ requestOpens >= 1 /\ requestCloses >= 1 /\ Settled
    /\ view.surface.anchor = "right" /\ view.surface.sx.width = 200

\* the identifiers a rendering uses for labelling: the id of its title element and the
\* aria-labelledby of its surface
LabelIds(v) ==
    { t.id : t \in v.surface.title } \cup ({v.surface.paper.labelledby} \ {Undefined})

C24_StateDiscardedOnUnmount ==
    /\ [][ lastEvent' = "unmount" =>
               /\ onOpenCalls' = onOpenCalls /\ onCloseCalls' = onCloseCalls
               /\ view' = NoView /\ ~surfaceMounted' /\ queue' = <<>> /\ ~effectPending'
         ]_vars
    /\ [][ (lastEvent = "unmount" /\ lastEvent' = "mount") =>
               /\ drawerOpen' = props'.open /\ ~props'.open
               /\ view'.surface.open = props'.open
               /\ onOpenCalls' = onOpenCalls /\ onCloseCalls' = onCloseCalls
         ]_vars
    /\ [](navBar # {} /\ lastEvent = "mount" => ~drawerOpen /\ ~view.surface.open)

\* the hamburger was activated and onOpen called, no requestClose was made; the Drawer
\* was then removed and mounted again: the new instance is hidden and onClose was never
\* called
C24_Witness ==
    /\ navBar # {} /\ lastEvent = "mount" /\ Settled
    /\ requestOpens = 1 /\ requestCloses = 0 /\ onOpenCalls = 1 /\ onCloseCalls = 0
    /\ props.onClose # Undefined
    /\ ~drawerOpen /\ ~view.surface.open /\ ~surfaceMounted

\* a step between two renderings of the same mounted Drawer of a NavBar
SameNavBarDrawer ==
    navBar # {} /\ "surface" \in DOMAIN view /\ "surface" \in DOMAIN view'

\* C25, as claimed: a NavBar always gives its Drawer open=false and openButton=true and
\* adds no state: the visibility of its Drawer changes only in a step that is a request
\* of the Trigger, the Dismiss Control or the backdrop, so a re-render of the NavBar
\* leaves an open Drawer open.
C25_OnlyRequestsChangeVisibility ==
    /\ [](navBar # {} /\ "surface" \in DOMAIN view => ~props.open /\ props.openButton)
    /\ [][ (SameNavBarDrawer /\ view'.surface.open # view.surface.open)
               => (RequestOpenStep \/ RequestCloseStep) ]_vars

\* C26: the request sets the visibility before it calls the callback: when onOpen
\* throws, the requestOpen still leaves the panel open and onOpen entered exactly once,
\* and when onClose throws, the requestClose still leaves the panel closed and onClose
\* entered exactly once.
C26_UpdateBeforeCallback ==
    [][ /\ (RequestOpenStep /\ props.onOpen = "throws") =>
              /\ drawerOpen' /\ view'.surface.open
              /\ onOpenCalls' = onOpenCalls + 1 /\ onCloseCalls' = onCloseCalls
        /\ (RequestCloseStep /\ props.onClose = "throws") =>
              /\ ~drawerOpen' /\ ~view'.surface.open
              /\ onCloseCalls' = onCloseCalls + 1 /\ onOpenCalls' = onOpenCalls
      ]_vars

\* onOpen throws; the panel was closed and the Trigger was activated once: the exception
\* of onOpen left the handler, onOpen was entered once and the panel is open
C26_Witness ==
    /\ props.onOpen = "throws" /\ ~props.open
    /\ requestOpens = 1 /\ requestCloses = 0 /\ lastEvent = "trigger" /\ ~repeated
    /\ thrown = "onOpen" /\ onOpenCalls = 1
    /\ drawerOpen /\ view.surface.open /\ Settled

\* C27: the labelling reference never dangles: in every render of an open surface,
\* aria-labelledby is set if and only if one title element with exactly that identifier
\* is rendered inside the surface, and when the static label is used no title element
\* is rendered.
C27_LabelReferenceResolves ==
    view.surface.open =>
        LET paper == view.surface.paper
            refs == {paper.labelledby} \ {Undefined}
            ids == { t.id : t \in view.surface.title }
        IN  /\ refs = ids
            /\ Cardinality(view.surface.title) <= 1
            /\ paper.label # Undefined => view.surface.title = {}

\* the title is "Settings" and the Trigger opened the surface: the surface refers to the
\* identifier of the title element that is rendered inside it, and the element shows
\* "Settings"
C27_Witness ==
    /\ view.surface.open /\ requestOpens >= 1
    /\ view.surface.paper.labelledby # Undefined
    /\ \E t \in view.surface.title :
          t.id = view.surface.paper.labelledby /\ t.text = "Settings"
====
